---- MODULE Spec2Model ----
(***************************************************************************)
(* Model of the invoice extraction pipeline of invoice_extractor.py (the   *)
(* Anthropic variant) and invoice_extractor_groq.py (the Groq variant):    *)
(* get_supported_files, process_invoice (normalization, extraction call,   *)
(* fence stripping, json.loads, VAT check), check_vat_reliability,         *)
(* parse_vat_response, save_results and the loop of process_all_invoices.  *)
(*                                                                         *)
(* Python strings on which the code works character by character (file     *)
(* names, VAT numbers, the backend's text) are sequences of one-character  *)
(* strings.  Python values are records [t |-> type tag, s |-> characters]. *)
(***************************************************************************)
EXTENDS Integers, Sequences, FiniteSets, TLC

VARIABLES
  variant,        \* which source file runs: "anthropic" or "groq"
  folder,         \* the names of the files in the scanned folder
  files,          \* the list returned by get_supported_files
  i,              \* index into files of the document in the for loop
  pc,             \* position in process_all_invoices / process_invoice
  tmp,            \* the temporary files that exist on disk: name -> content
  encoded,        \* encoded_image: the document the encoded bytes came from
  media_type,     \* media_type of the current document
  enhanced_path,  \* enhanced_image_path of the current document (Groq)
  response_text,  \* response_text of the current document
  extracted_data, \* what process_invoice returns for the current document
  vat_path,       \* the branch check_vat_reliability took for this document
  reply,          \* the registry's reply to this document's request
  outputs,        \* the output files on disk: path -> written record
  savedTo,        \* document index -> path save_results wrote it to
  failed,         \* indices reported "Failed to process"
  requests,       \* the registry requests issued: <<document index, dic>>
  extractCalls,   \* document index -> number of backend calls
  failStage,      \* document index -> stage at which a failure happened
  script,         \* file name -> what the backend and the registry answer for it
  run,            \* how many times process_all_invoices has been called
  firstOutputs,   \* the output files as the first call left them
  calls           \* the calls of pdf_to_image in flight at the same time

vars == <<variant, folder, files, i, pc, tmp, encoded, media_type,
          enhanced_path, response_text, extracted_data, vat_path, reply,
          outputs, savedTo, failed, requests, extractCalls, failStage,
          script, run, firstOutputs, calls>>

\* What no step of one call of process_all_invoices changes.
fixedVars == <<variant, folder, script, run, firstOutputs, calls>>

(***************************************************************************)
(* Bounds of the model.                                                    *)
(***************************************************************************)
MaxFiles == 3     \* files in the scanned folder
MaxDigits == 11   \* longest numeric body of a generated VAT number
MaxRecords == 2   \* payer records in one registry reply
MaxCalls == 2     \* calls of pdf_to_image in flight at the same time
MaxRuns == 2      \* calls of process_all_invoices on the same folder

(***************************************************************************)
(* Python values.                                                          *)
(***************************************************************************)
PyStr(s) == [t |-> "str", s |-> s]
PyNum(s) == [t |-> "num", s |-> s]
PyNone == [t |-> "none", s |-> <<>>]
PyTrue == [t |-> "bool", s |-> <<"true">>]
PyFalse == [t |-> "bool", s |-> <<"false">>]
\* An element or key that is not there at all.
Absent == [t |-> "absent", s |-> <<>>]

\* Python truth value: "", 0, None and False are false.
Truthy(v) ==
  CASE v.t = "str" -> v.s # <<>>
    [] v.t = "num" -> v.s # <<"0">>
    [] v.t = "bool" -> v.s = <<"true">>
    [] OTHER -> FALSE

(***************************************************************************)
(* str methods, on sequences of characters.                                *)
(***************************************************************************)
LowerLetters == <<"a","b","c","d","e","f","g","h","i","j","k","l","m",
                  "n","o","p","q","r","s","t","u","v","w","x","y","z">>
UpperLetters == <<"A","B","C","D","E","F","G","H","I","J","K","L","M",
                  "N","O","P","Q","R","S","T","U","V","W","X","Y","Z">>
AsciiDigits == {"0","1","2","3","4","5","6","7","8","9"}
Whitespace == {" ", "\n", "\t", "\r"}

UpperChar(c) ==
  IF \E k \in 1..Len(LowerLetters) : LowerLetters[k] = c
  THEN UpperLetters[CHOOSE k \in 1..Len(LowerLetters) : LowerLetters[k] = c]
  ELSE c

LowerChar(c) ==
  IF \E k \in 1..Len(UpperLetters) : UpperLetters[k] = c
  THEN LowerLetters[CHOOSE k \in 1..Len(UpperLetters) : UpperLetters[k] = c]
  ELSE c

upper(s) == [k \in 1..Len(s) |-> UpperChar(s[k])]
lower(s) == [k \in 1..Len(s) |-> LowerChar(s[k])]

\* s.replace(" ", "")
NotSpace(c) == c # " "
replace_spaces(s) == SelectSeq(s, NotSpace)

startswith(s, p) == Len(s) >= Len(p) /\ SubSeq(s, 1, Len(p)) = p
endswith(s, p) ==
  Len(s) >= Len(p) /\ SubSeq(s, Len(s) - Len(p) + 1, Len(s)) = p

\* s.isdigit(): non-empty and every character a digit.
isdigit(s) == s # <<>> /\ \A k \in 1..Len(s) : s[k] \in AsciiDigits

RECURSIVE lstrip(_)
lstrip(s) ==
  IF s # <<>> /\ Head(s) \in Whitespace THEN lstrip(Tail(s)) ELSE s

RECURSIVE rstrip(_)
rstrip(s) ==
  IF s # <<>> /\ s[Len(s)] \in Whitespace
  THEN rstrip(SubSeq(s, 1, Len(s) - 1)) ELSE s

strip(s) == rstrip(lstrip(s))

(***************************************************************************)
(* check_vat_reliability: the checks made before any request is built.     *)
(***************************************************************************)
CZ == <<"C", "Z">>

\* vat_number.replace(" ", "").upper()
vat_clean(v) == upper(replace_spaces(v.s))

\* vat_clean[2:]
vat_numeric(v) == SubSeq(vat_clean(v), 3, Len(vat_clean(v)))

\* vat_format_ok without the isdigit test.
vat_format_ok_NoDigitTest(n) == ~(Len(n) < 8) /\ ~(Len(n) > 10)

\* The negation of the test that returns None before the request is built:
\* isdigit, and 8 to 10 characters.
vat_format_ok(n) == isdigit(n) /\ ~(Len(n) < 8) /\ ~(Len(n) > 10)

\* The first early return check_vat_reliability takes for v, or "request"
\* when it goes on to the registry.
vat_precheck(v) ==
  IF ~Truthy(v) \/ v.t # "str" THEN "not_str"
  ELSE IF ~startswith(vat_clean(v), CZ) THEN "not_cz"
  ELSE IF ~vat_format_ok(vat_numeric(v)) THEN "bad_format"
  ELSE "request"

(***************************************************************************)
(* parse_vat_response.  A reply body is                                    *)
(*   [wellformed, hasStatus, statusCode, elems]                            *)
(* and an element of it                                                    *)
(*   [tag, dicAttr, flagAttr, dicChild, nespChild]:                        *)
(* its dic and nespolehlivyPlatce attributes ("" when not there, as        *)
(* Element.get(name, '') reads them) and the text of its dic and           *)
(* nespolehlivy child elements (Absent: no such child; PyNone: a child     *)
(* with no text).                                                          *)
(***************************************************************************)
Result(r, p) == [ret |-> r, path |-> p]

TrueChars == <<"t", "r", "u", "e">>

IsStatusNespolehlivyPlatce(e) == e.tag = "StatusNespolehlivyPlatce"
IsStatusPlatceDPH(e) == e.tag = "statusPlatceDPH"

\* The for loop of the Anthropic variant and the return True after it.
RECURSIVE anthropic_records(_, _)
anthropic_records(elems, n) ==
  IF elems = <<>> THEN Result(PyTrue, "assumed_reliable")
  ELSE LET platce == Head(elems) IN
    IF platce.dicChild = PyStr(n) /\ platce.nespChild # Absent
    THEN IF platce.nespChild.t = "none"
         THEN Result(PyNone, "processing_error")
         ELSE IF lower(platce.nespChild.s) = TrueChars
              THEN Result(PyFalse, "classified")
              ELSE Result(PyTrue, "classified")
    ELSE anthropic_records(Tail(elems), n)

\* The value returned for the nespolehlivyPlatce attribute of the record
\* whose dic matched (Groq variant).
groq_flag(nespolehlivy_value) ==
  IF nespolehlivy_value = "NENALEZEN" THEN PyFalse
  ELSE IF nespolehlivy_value = "ANO" THEN PyFalse
  ELSE IF nespolehlivy_value = "NE" \/ nespolehlivy_value = "" THEN PyTrue
  ELSE PyTrue

\* The for loop of the Groq variant and the return False after it.
RECURSIVE groq_records(_, _)
groq_records(elems, n) ==
  IF elems = <<>> THEN Result(PyFalse, "no_match")
  ELSE LET platce == Head(elems) IN
    IF platce.dicAttr = n
    THEN Result(groq_flag(platce.flagAttr), "classified")
    ELSE groq_records(Tail(elems), n)

parse_vat_response_anthropic(xml, n) ==
  IF ~xml.wellformed THEN Result(PyNone, "parse_error")
  ELSE IF ~xml.hasStatus THEN Result(PyNone, "no_status")
  ELSE IF xml.statusCode # "0" THEN Result(PyNone, "bad_status")
  ELSE anthropic_records(SelectSeq(xml.elems, IsStatusNespolehlivyPlatce), n)

parse_vat_response_groq(xml, n) ==
  IF ~xml.wellformed THEN Result(PyNone, "parse_error")
  ELSE IF ~xml.hasStatus THEN Result(PyNone, "no_status")
  ELSE IF xml.statusCode # "0" THEN Result(PyNone, "bad_status")
  ELSE IF SelectSeq(xml.elems, IsStatusPlatceDPH) = <<>>
       THEN Result(PyFalse, "no_records")
       ELSE groq_records(SelectSeq(xml.elems, IsStatusPlatceDPH), n)

parse_vat_response(v, xml, n) ==
  IF v = "groq" THEN parse_vat_response_groq(xml, n)
  ELSE parse_vat_response_anthropic(xml, n)

\* What check_vat_reliability returns once requests.post has answered rep:
\* an exception (a timeout, a connection error) is caught, a status other
\* than 200 returns None, a 200 is parsed.
HTTP_OK == 200

\* vat_after_post without the test of response.status_code.
vat_after_post_AnyStatus(v, rep, n) ==
  IF rep.kind = "exception" THEN Result(PyNone, "exception")
  ELSE parse_vat_response(v, rep.body, n)

vat_after_post(v, rep, n) ==
  IF rep.kind = "exception" THEN Result(PyNone, "exception")
  ELSE IF rep.code = HTTP_OK THEN parse_vat_response(v, rep.body, n)
  ELSE Result(PyNone, "http_error")

(***************************************************************************)
(* File names (sequences of characters), pathlib's suffix and stem, and    *)
(* get_supported_files.  Path.glob matches case-sensitively, as it does on *)
(* a POSIX system.                                                         *)
(***************************************************************************)
Dots(name) == {k \in 1..Len(name) : name[k] = "."}

\* name.rfind('.'), 0 when there is no dot.
rfind_dot(name) ==
  IF Dots(name) = {} THEN 0
  ELSE CHOOSE k \in Dots(name) : \A m \in Dots(name) : m <= k

\* PurePath.suffix: from the last dot, unless it is the first or the last
\* character of the name.
HasSuffix(name) == rfind_dot(name) > 1 /\ rfind_dot(name) < Len(name)
suffix(name) ==
  IF HasSuffix(name) THEN SubSeq(name, rfind_dot(name), Len(name)) ELSE <<>>
stem(name) ==
  IF HasSuffix(name) THEN SubSeq(name, 1, rfind_dot(name) - 1) ELSE name

supported_extensions ==
  << <<".", "p", "d", "f">>, <<".", "p", "n", "g">>, <<".", "j", "p", "g">>,
     <<".", "j", "p", "e", "g">>, <<".", "g", "i", "f">>,
     <<".", "w", "e", "b", "p">> >>

\* The patterns in the order the loop globs them: *ext, then *ext.upper().
RECURSIVE glob_patterns(_)
glob_patterns(exts) ==
  IF exts = <<>> THEN <<>>
  ELSE <<Head(exts), upper(Head(exts))>> \o glob_patterns(Tail(exts))

\* folder.glob("*" + pat): the names that end with pat.
glob(dir, pat) == {f \in dir : endswith(f, pat)}

\* Every order in which a directory listing may yield the set S.
RECURSIVE Orderings(_)
Orderings(S) ==
  IF S = {} THEN {<<>>}
  ELSE UNION {{<<x>> \o rest : rest \in Orderings(S \ {x})} : x \in S}

\* The lists get_supported_files may return: the matches of each pattern
\* appended in pattern order.
RECURSIVE extend_all(_, _)
extend_all(dir, pats) ==
  IF pats = <<>> THEN {<<>>}
  ELSE {a \o b : a \in Orderings(glob(dir, Head(pats))),
                 b \in extend_all(dir, Tail(pats))}

get_supported_files(dir) == extend_all(dir, glob_patterns(supported_extensions))

\* f"{Path(original_filename).stem}_extracted.json"
output_filename(name) == stem(name) \o <<"_extracted.json">>

\* media_type of process_invoice, from file_extension = suffix.lower().
media_type_of(name) ==
  LET file_extension == lower(suffix(name)) IN
  IF file_extension = <<".", "p", "d", "f">> THEN "image/png"
  ELSE IF file_extension \in {<<".", "j", "p", "g">>, <<".", "j", "p", "e", "g">>}
       THEN "image/jpeg"
  ELSE IF file_extension = <<".", "p", "n", "g">> THEN "image/png"
  ELSE IF file_extension = <<".", "g", "i", "f">> THEN "image/gif"
  ELSE IF file_extension = <<".", "w", "e", "b", "p">> THEN "image/webp"
  ELSE "image/png"

IsPdf(name) == lower(suffix(name)) = <<".", "p", "d", "f">>

\* The temporary files of the two variants.
temp_image_path(v) ==
  IF v = "groq" THEN <<"temp_invoice_enhanced.png">> ELSE <<"temp_invoice.png">>
temp_enhanced(name) == <<"temp_enhanced_">> \o name

(***************************************************************************)
(* The backend's text and json.loads.  A text is [chars, doc]: its         *)
(* characters, in which the one element "<doc>" stands for the characters  *)
(* of a JSON document, and doc, the value that document denotes:           *)
(* [kind, data] with kind "object", "array", "string", "number", "null"    *)
(* or "invalid" (not JSON) and data the mapping of an object.              *)
(***************************************************************************)
DOC == "<doc>"
\* The backtick character, which a TLA+ string cannot hold.
BT == "<backtick>"
FenceJson == <<BT, BT, BT, "j", "s", "o", "n">>
Fence == <<BT, BT, BT>>

\* The two fence tests of process_invoice and the strip() after them.
strip_fences(text) ==
  LET a == IF startswith(text, FenceJson)
           THEN SubSeq(text, Len(FenceJson) + 1, Len(text)) ELSE text
      b == IF endswith(a, Fence) THEN SubSeq(a, 1, Len(a) - Len(Fence)) ELSE a
  IN strip(b)

\* json.loads(response_text) or {}: a null document becomes an empty object.
json_loads_OrEmpty(text, doc) ==
  IF strip(text) = <<DOC>> /\ doc.kind # "invalid"
  THEN IF doc.kind = "null" THEN [kind |-> "object", data |-> <<>>] ELSE doc
  ELSE [kind |-> "error", data |-> <<>>]

\* json.loads: the text must be one JSON document, white space around it
\* allowed; anything else raises JSONDecodeError.
json_loads(text, doc) ==
  IF strip(text) = <<DOC>> /\ doc.kind # "invalid" THEN doc
  ELSE [kind |-> "error", data |-> <<>>]

InvoiceRecordKeys ==
  {"supplier_name", "vat_number", "invoice_number", "date_of_sale",
   "due_date", "duzp", "amount_without_VAT_21", "VAT_21",
   "amount_without_VAT_12", "VAT_12", "total_amount_with_VAT",
   "reliable_VAT_payer"}

UnableToVerify == PyStr(<<"Unable to verify">>)
NoVatNumberFound == PyStr(<<"No VAT number found">>)

\* extracted_data.setdefault(k, v): a key that is there keeps its value.
SetKey_KeepExisting(d, k, v) ==
  [x \in DOMAIN d \cup {k} |-> IF x \in DOMAIN d THEN d[x] ELSE v]

\* extracted_data[k] = v
SetKey(d, k, v) == [x \in DOMAIN d \cup {k} |-> IF x = k THEN v ELSE d[x]]

\* 'vat_number' in extracted_data and extracted_data['vat_number']
has_vat_number(d) == "vat_number" \in DOMAIN d /\ Truthy(d["vat_number"])

\* reliable_value without the else branch that stores the sentinel.
reliable_value_NoSentinel(vat_reliability) == vat_reliability

\* The value process_invoice stores for what check_vat_reliability returned.
reliable_value(vat_reliability) ==
  IF vat_reliability # PyNone THEN vat_reliability ELSE UnableToVerify

ReturnDict(d) == [kind |-> "dict", data |-> d]
ReturnNone == [kind |-> "none", data |-> <<>>]

\* process_all_invoices without the test: every return value is saved.
ReturnTruthy_Always(r) == TRUE

\* if extracted_data: of process_all_invoices
ReturnTruthy(r) == r.kind = "dict" /\ DOMAIN r.data # {}

(***************************************************************************)
(* The inputs the environment may supply: the folder's files, the          *)
(* backend's texts and the registry's replies.                             *)
(***************************************************************************)
Variants == {"anthropic", "groq"}

Text(c, d) == [chars |-> c, doc |-> d]
X == PyStr(<<"x">>)

\* A JSON object with the keys K, vat_number v and reliable_VAT_payer r.
MkObject(K, v, r) ==
  [kind |-> "object",
   data |-> [k \in K |-> IF k = "vat_number" THEN v
                         ELSE IF k = "reliable_VAT_payer" THEN r ELSE X]]
NotJson == [kind |-> "invalid", data |-> <<>>]
\* The call of the backend raises instead of answering.
BackendRaises == Text(<<>>, [kind |-> "raised", data |-> <<>>])
JsonArray == [kind |-> "array", data |-> <<>>]
JsonString == [kind |-> "string", data |-> <<>>]
JsonNumber == [kind |-> "number", data |-> <<>>]
JsonBool == [kind |-> "bool", data |-> <<>>]
JsonNull == [kind |-> "null", data |-> <<>>]

DigitRun == <<"1","2","3","4","5","6","7","8","9","0","1","2","3","4","5">>
Body(n) == SubSeq(DigitRun, 1, n)
OtherDic == <<"8","7","6","5","4","3","2","1">>

VatPrefixes == {CZ, <<"c", "z">>, <<"D", "E">>, <<>>}
VatStrings ==
  {p \o Body(n) : p \in VatPrefixes, n \in 0..MaxDigits}
  \cup { <<"C","Z","X","Y","Z","1","2","3","4">>,
         <<"C","Z"," ","1","2","3","4"," ","5","6","7","8">>,
         <<"C","Z","1","2","3","4","5","6","7","X">>,
         <<"C","Z","\t","1","2","3","4","5","6","7","8">>,
         <<" ">> }
VatValues ==
  {PyStr(c) : c \in VatStrings}
  \cup {PyNone, PyNum(Body(8)), PyNum(<<"0">>)}

Elem(tag, da, fa, dc, nc) ==
  [tag |-> tag, dicAttr |-> da, flagAttr |-> fa, dicChild |-> dc,
   nespChild |-> nc]
Xml(w, h, c, e) ==
  [wellformed |-> w, hasStatus |-> h, statusCode |-> c, elems |-> e]
Http(code, body) == [kind |-> "http", code |-> code, body |-> body]
Raised == [kind |-> "exception", code |-> 0, body |-> Xml(FALSE, FALSE, "", <<>>)]
NoReply == [kind |-> "none", code |-> 0, body |-> Xml(FALSE, FALSE, "", <<>>)]

Flags == {"ANO", "NE", "", "NENALEZEN", "ano"}
\* Records as the Groq variant reads them (attributes) and as the Anthropic
\* variant reads them (child elements), for the queried number n.
RecordElems(n) ==
  {Elem("statusPlatceDPH", n, f, Absent, Absent) : f \in Flags}
  \cup {Elem("statusPlatceDPH", OtherDic, "ANO", Absent, Absent)}
  \cup {Elem("StatusNespolehlivyPlatce", <<>>, "", PyStr(n), c) :
          c \in {Absent, PyNone, PyStr(<<"T","r","u","e">>),
                 PyStr(<<"f","a","l","s","e">>)}}
  \cup {Elem("StatusNespolehlivyPlatce", <<>>, "", PyStr(OtherDic), PyStr(TrueChars))}

RECURSIVE SeqsUpTo(_, _)
SeqsUpTo(S, n) ==
  IF n = 0 THEN {<<>>}
  ELSE SeqsUpTo(S, n - 1)
       \cup {Append(q, x) : q \in {r \in SeqsUpTo(S, n - 1) : Len(r) = n - 1},
                            x \in S}

XmlBodies(n) ==
  {Xml(FALSE, FALSE, "", <<>>)}
  \cup {Xml(TRUE, FALSE, "", e) : e \in SeqsUpTo(RecordElems(n), 1)}
  \cup {Xml(TRUE, TRUE, c, e) : c \in {"0", "1", ""},
                                e \in SeqsUpTo(RecordElems(n), MaxRecords)}

RegistryReplies(n) ==
  {Raised} \cup {Http(code, b) : code \in {HTTP_OK, 500}, b \in XmlBodies(n)}

\* A value the backend put under reliable_VAT_payer.
BackendSays == PyStr(<<"yes">>)

\* The texts and folders of the one-document runs that exercise the VAT check.
VatTexts ==
  {Text(<<DOC>>, MkObject(InvoiceRecordKeys, v, BackendSays)) : v \in VatValues}
  \cup {Text(<<DOC>>, MkObject(InvoiceRecordKeys \ {"vat_number"}, PyNone, BackendSays)),
        Text(<<DOC>>, NotJson), Text(<<DOC>>, JsonArray),
        Text(<<DOC>>, JsonString), Text(<<DOC>>, JsonNumber),
        Text(<<DOC>>, JsonBool), Text(<<DOC>>, JsonNull), BackendRaises}
VatFolders == { {<<"a", ".", "p", "n", "g">>} }

\* The texts, replies and folders of the batch runs.
BatchTexts ==
  {Text(<<DOC>>, MkObject(InvoiceRecordKeys, PyStr(CZ \o Body(8)), PyStr(<<>>))),
   Text(FenceJson \o <<"\n", DOC, "\n">> \o Fence,
        MkObject(InvoiceRecordKeys \ {"reliable_VAT_payer"}, PyStr(<<>>), PyNone)),
   Text(Fence \o <<"\n", DOC, "\n">> \o Fence,
        MkObject(InvoiceRecordKeys \ {"reliable_VAT_payer"}, PyStr(<<>>), PyNone)),
   Text(Fence \o <<"j", "s", "\n", DOC, "\n">> \o Fence,
        MkObject(InvoiceRecordKeys \ {"reliable_VAT_payer"}, PyStr(<<>>), PyNone)),
   Text(<<DOC>>, MkObject({"supplier_name"}, PyNone, PyNone)),
   Text(<<DOC>>, NotJson), Text(<<DOC>>, JsonArray), BackendRaises}
BatchReplies(n) ==
  {Raised,
   Http(HTTP_OK, Xml(TRUE, TRUE, "0",
          <<Elem("statusPlatceDPH", n, "NE", Absent, Absent)>>)),
   Http(HTTP_OK, Xml(TRUE, TRUE, "0",
          <<Elem("statusPlatceDPH", n, "ANO", Absent, Absent),
            Elem("StatusNespolehlivyPlatce", <<>>, "", PyStr(n), PyStr(TrueChars))>>))}
BatchNames ==
  { <<"a", ".", "p", "d", "f">>, <<"a", ".", "p", "n", "g">>,
    <<"b", ".", "P", "D", "F">>, <<"c", ".", "P", "d", "f">>,
    <<"n", ".", "t", "x", "t">> }
BatchFolders == {d \in SUBSET BatchNames : Cardinality(d) <= MaxFiles}

(***************************************************************************)
(* The state machine.                                                      *)
(***************************************************************************)
NoFile == <<>>
NoData == ReturnNone
NoText == Text(<<>>, NotJson)

InitWith(folders) ==
  /\ variant \in Variants
  /\ folder \in folders
  /\ files = <<>>
  /\ i = 0
  /\ pc = "start"
  /\ tmp = {}
  /\ encoded = NoFile
  /\ media_type = ""
  /\ enhanced_path = NoFile
  /\ response_text = NoText
  /\ extracted_data = NoData
  /\ vat_path = "none"
  /\ reply = NoReply
  /\ outputs = {}
  /\ savedTo = <<>>
  /\ failed = {}
  /\ requests = <<>>
  /\ extractCalls = <<>>
  /\ failStage = <<>>
  /\ run = 1
  /\ firstOutputs = {}

docVars == <<encoded, media_type, enhanced_path, response_text,
             extracted_data, vat_path, reply>>
batchVars == <<outputs, savedTo, failed, requests, extractCalls>>

file_path == files[i]

\* process_all_invoices up to its for loop: files = get_supported_files(),
\* and the return when there are none.
GetSupportedFiles ==
  /\ pc = "start"
  /\ \E fs \in get_supported_files(folder) :
       /\ files' = fs
       /\ savedTo' = [k \in 1..Len(fs) |-> NoFile]
       /\ extractCalls' = [k \in 1..Len(fs) |-> 0]
       /\ failStage' = [k \in 1..Len(fs) |-> "none"]
       /\ i' = 1
       /\ pc' = IF fs = <<>> THEN "done" ELSE "loop"
  /\ UNCHANGED <<fixedVars, tmp, docVars, outputs, failed, requests>>

\* The head of the for loop and the entry of process_invoice: the branch
\* on file_extension.
LoopNext ==
  /\ pc = "loop"
  /\ pc' = IF i > Len(files) THEN "done"
           ELSE IF IsPdf(file_path) THEN "pdf_render"
           ELSE IF variant = "groq" THEN "img_enhance" ELSE "img_encode"
  /\ encoded' = NoFile
  /\ media_type' = ""
  /\ enhanced_path' = NoFile
  /\ response_text' = NoText
  /\ extracted_data' = NoData
  /\ vat_path' = "none"
  /\ reply' = NoReply
  /\ UNCHANGED <<fixedVars, files, i, tmp, batchVars, failStage>>

\* An exception raised before the try block of process_invoice: nothing in
\* process_invoice or process_all_invoices catches it.
Propagate ==
  /\ pc' = "aborted"
  /\ failStage' = [failStage EXCEPT ![i] = "normalize"]
  /\ UNCHANGED <<fixedVars, files, i, docVars, batchVars>>

WriteTemp(name, content) ==
  tmp' = {t \in tmp : t.name # name} \cup {[name |-> name, content |-> content]}
RemoveTemp(name) == tmp' = {t \in tmp : t.name # name}
TempExists(name) == \E t \in tmp : t.name = name
TempContent(name) == (CHOOSE t \in tmp : t.name = name).content

\* pdf_to_image: fitz.open, doc[0], get_pixmap, tobytes (and in the Groq
\* variant Image.open and enhance_image_for_ocr).
PdfRender ==
  /\ pc = "pdf_render"
  /\ \/ /\ pc' = "pdf_write"
        /\ UNCHANGED <<fixedVars, files, i, tmp, docVars, batchVars, failStage>>
     \/ Propagate /\ UNCHANGED tmp

\* pdf_to_image: the temporary image is written; a failed write may leave
\* the file behind.
PdfWriteTemp ==
  /\ pc = "pdf_write"
  /\ \/ /\ WriteTemp(temp_image_path(variant), file_path)
        /\ pc' = "pdf_encode"
        /\ UNCHANGED <<fixedVars, files, i, docVars, batchVars, failStage>>
     \/ Propagate /\ WriteTemp(temp_image_path(variant), file_path)
     \/ Propagate /\ UNCHANGED tmp

\* pdf_to_image: encode_image(temp_image_path).
PdfEncode ==
  /\ pc = "pdf_encode"
  /\ \/ /\ TempExists(temp_image_path(variant))
        /\ encoded' = TempContent(temp_image_path(variant))
        /\ pc' = "pdf_remove"
        /\ UNCHANGED <<fixedVars, files, i, tmp, media_type, enhanced_path,
                       response_text, extracted_data, vat_path, reply, batchVars,
                       failStage>>
     \/ Propagate /\ UNCHANGED tmp

\* pdf_to_image: os.remove(temp_image_path), doc.close(), and back in
\* process_invoice media_type = "image/png".
PdfRemove ==
  /\ pc = "pdf_remove"
  /\ IF TempExists(temp_image_path(variant))
     THEN /\ RemoveTemp(temp_image_path(variant))
          /\ media_type' = media_type_of(file_path)
          /\ pc' = "extract"
          /\ UNCHANGED <<fixedVars, files, i, encoded, enhanced_path,
                         response_text, extracted_data, vat_path, reply,
                         batchVars, failStage>>
     ELSE Propagate /\ UNCHANGED tmp

\* Anthropic variant, image input: encode_image(file_path) and media_type.
ImgEncode ==
  /\ pc = "img_encode"
  /\ \/ /\ encoded' = file_path
        /\ media_type' = media_type_of(file_path)
        /\ pc' = "extract"
        /\ UNCHANGED <<fixedVars, files, i, tmp, enhanced_path,
                       response_text, extracted_data, vat_path, reply, batchVars,
                       failStage>>
     \/ Propagate /\ UNCHANGED tmp

\* Groq variant, image input: enhance_existing_image.  It returns the path
\* of the enhanced copy, or, when anything raised, the original path; a
\* save that raised may leave the copy behind.
ImgEnhance ==
  /\ pc = "img_enhance"
  /\ pc' = "img_encode_groq"
  /\ \/ WriteTemp(temp_enhanced(file_path), file_path)
        /\ enhanced_path' = temp_enhanced(file_path)
     \/ UNCHANGED tmp /\ enhanced_path' = file_path
     \/ WriteTemp(temp_enhanced(file_path), file_path)
        /\ enhanced_path' = file_path
  /\ UNCHANGED <<fixedVars, files, i, encoded, media_type, response_text,
                 extracted_data, vat_path, reply, batchVars, failStage>>

\* Groq variant: encode_image(enhanced_image_path).
ImgEncodeGroq ==
  /\ pc = "img_encode_groq"
  /\ \/ /\ enhanced_path = file_path \/ TempExists(enhanced_path)
        /\ encoded' = IF enhanced_path = file_path THEN file_path
                      ELSE TempContent(enhanced_path)
        /\ pc' = "img_cleanup"
        /\ UNCHANGED <<fixedVars, files, i, tmp, media_type, enhanced_path,
                       response_text, extracted_data, vat_path, reply, batchVars,
                       failStage>>
     \/ Propagate /\ UNCHANGED tmp

\* Groq variant: the enhanced copy is removed if one was returned, and
\* media_type is set.
ImgCleanup ==
  /\ pc = "img_cleanup"
  /\ IF enhanced_path # file_path /\ ~TempExists(enhanced_path)
     THEN Propagate /\ UNCHANGED tmp
     ELSE /\ IF enhanced_path # file_path THEN RemoveTemp(enhanced_path)
             ELSE UNCHANGED tmp
          /\ media_type' = media_type_of(file_path)
          /\ pc' = "extract"
          /\ UNCHANGED <<fixedVars, files, i, encoded, enhanced_path,
                         response_text, extracted_data, vat_path, reply,
                         batchVars, failStage>>

\* The number sent to the registry for the current document.
requested_dic == vat_numeric(extracted_data.data["vat_number"])

\* process_invoice returns None from one of its except clauses.
ReturnFailure(stage) ==
  /\ extracted_data' = ReturnNone
  /\ failStage' = [failStage EXCEPT ![i] = stage]
  /\ pc' = "report"

\* The call of the backend and response_text = (...).strip(), for the
\* answers texts the backend may give.  Whatever the call raises is caught
\* by the outer except Exception.
Extract(texts) ==
  /\ pc = "extract"
  /\ extractCalls' = [extractCalls EXCEPT ![i] = @ + 1]
  /\ \E t \in texts :
       IF t = BackendRaises
       THEN ReturnFailure("extract") /\ UNCHANGED response_text
       ELSE /\ response_text' = Text(strip(t.chars), t.doc)
            /\ pc' = "parse"
            /\ UNCHANGED <<extracted_data, failStage>>
  /\ UNCHANGED <<fixedVars, files, i, tmp, encoded, media_type,
                 enhanced_path, vat_path, reply, outputs, savedTo, failed,
                 requests>>

\* The fence tests, json.loads and the test for vat_number.  A text that
\* is not JSON raises JSONDecodeError.  A document that is not an object
\* raises TypeError: a number, a boolean or null at the membership test
\* 'vat_number' in extracted_data, a list or a string at the subscript or
\* the item assignment that follows it; the outer except Exception catches
\* it.  Both return None.
Parse ==
  /\ pc = "parse"
  /\ LET parsed == json_loads(strip_fences(response_text.chars),
                              response_text.doc) IN
     IF parsed.kind # "object"
     THEN ReturnFailure("parse")
     ELSE IF has_vat_number(parsed.data)
     THEN /\ extracted_data' = ReturnDict(parsed.data)
          /\ pc' = "vat"
          /\ UNCHANGED failStage
     ELSE /\ extracted_data' =
               ReturnDict(SetKey(parsed.data, "reliable_VAT_payer", NoVatNumberFound))
          /\ pc' = "report"
          /\ UNCHANGED failStage
  /\ UNCHANGED <<fixedVars, files, i, tmp, encoded, media_type,
                 enhanced_path, response_text, vat_path, reply, batchVars>>

\* vat_reliability = check_vat_reliability(vat_number) and the assignment
\* of reliable_VAT_payer: without a request when a check before it returns
\* None, else with one request and the registry's reply to it.
CheckVat(replies) ==
  /\ pc = "vat"
  /\ LET v == extracted_data.data["vat_number"] IN
     \/ /\ vat_precheck(v) # "request"
        /\ vat_path' = vat_precheck(v)
        /\ extracted_data' =
             ReturnDict(SetKey(extracted_data.data, "reliable_VAT_payer",
                               reliable_value(PyNone)))
        /\ UNCHANGED <<requests, reply>>
     \/ /\ vat_precheck(v) = "request"
        /\ \E rep \in replies :
             LET res == vat_after_post(variant, rep, vat_numeric(v)) IN
             /\ requests' = Append(requests, <<i, vat_numeric(v)>>)
             /\ reply' = rep
             /\ vat_path' = res.path
             /\ extracted_data' =
                  ReturnDict(SetKey(extracted_data.data, "reliable_VAT_payer",
                                    reliable_value(res.ret)))
  /\ pc' = "report"
  /\ UNCHANGED <<fixedVars, files, i, tmp, encoded, media_type,
                 enhanced_path, response_text, outputs, savedTo, failed,
                 extractCalls, failStage>>

\* save_results with the file opened in append mode: a record written to a
\* file that exists comes after what the file held, which the key
\* "<previous content>" stands for.
save_results_Append(data, original_filename) ==
  /\ outputs' =
       {o \in outputs : o.path # output_filename(original_filename)}
       \cup {[path |-> output_filename(original_filename),
              data |-> IF \E o \in outputs : o.path = output_filename(original_filename)
                       THEN SetKey(data, "<previous content>", PyTrue)
                       ELSE data]}
  /\ savedTo' = [savedTo EXCEPT ![i] = output_filename(original_filename)]

\* save_results: the record is written to <stem>_extracted.json, replacing
\* whatever that file held.
save_results(data, original_filename) ==
  /\ outputs' = {o \in outputs : o.path # output_filename(original_filename)}
                \cup {[path |-> output_filename(original_filename), data |-> data]}
  /\ savedTo' = [savedTo EXCEPT ![i] = output_filename(original_filename)]

\* Report with a failed document tried again: the loop does not move on
\* after "Failed to process".
Report_RetryFailed ==
  /\ pc = "report"
  /\ IF ReturnTruthy(extracted_data)
     THEN save_results(extracted_data.data, file_path) /\ UNCHANGED failed
     ELSE failed' = failed \cup {i} /\ UNCHANGED <<outputs, savedTo>>
  /\ reply' = NoReply
  /\ i' = IF ReturnTruthy(extracted_data) THEN i + 1 ELSE i
  /\ pc' = "loop"
  /\ UNCHANGED <<fixedVars, files, tmp, encoded, media_type,
                 enhanced_path, response_text, extracted_data, vat_path,
                 requests, extractCalls, failStage>>

\* The body of the for loop after process_invoice has returned.
Report ==
  /\ pc = "report"
  /\ IF ReturnTruthy(extracted_data)
     THEN save_results(extracted_data.data, file_path) /\ UNCHANGED failed
     ELSE failed' = failed \cup {i} /\ UNCHANGED <<outputs, savedTo>>
  /\ reply' = NoReply
  /\ i' = i + 1
  /\ pc' = "loop"
  /\ UNCHANGED <<fixedVars, files, tmp, encoded, media_type,
                 enhanced_path, response_text, extracted_data, vat_path,
                 requests, extractCalls, failStage>>

Normalize ==
  \/ PdfRender \/ PdfWriteTemp \/ PdfEncode \/ PdfRemove
  \/ ImgEncode \/ ImgEnhance \/ ImgEncodeGroq \/ ImgCleanup

\* A batch over a folder of up to MaxFiles files.
Init == InitWith(BatchFolders) /\ script = <<>> /\ calls = <<>>
Next ==
  \/ GetSupportedFiles \/ LoopNext \/ Normalize
  \/ Extract(BatchTexts) \/ Parse \/ CheckVat(BatchReplies(requested_dic)) \/ Report
Spec == Init /\ [][Next]_vars

\* One image document, with every VAT number and registry reply of the
\* bounds.
InitVat == InitWith(VatFolders) /\ script = <<>> /\ calls = <<>>
NextVat ==
  \/ GetSupportedFiles \/ LoopNext
  \/ ImgEncode \/ ImgEnhance \/ ImgEncodeGroq \/ ImgCleanup
  \/ Extract(VatTexts) \/ Parse \/ CheckVat(RegistryReplies(requested_dic)) \/ Report
SpecVat == InitVat /\ [][NextVat]_vars

(***************************************************************************)
(* process_all_invoices called again on the same folder.  script fixes,    *)
(* for each file, the text the backend answers (or that it raises) and the *)
(* registry's reply, the same in every run.                                *)
(***************************************************************************)
Answer(t, r) == [text |-> t, reply |-> r]

\* The text leads process_invoice to the registry.
AsksRegistry(t) ==
  /\ t.doc.kind = "object"
  /\ has_vat_number(t.doc.data)
  /\ vat_precheck(t.doc.data["vat_number"]) = "request"

Answers ==
  UNION {IF AsksRegistry(t)
         THEN {Answer(t, r) :
                 r \in BatchReplies(vat_numeric(t.doc.data["vat_number"]))}
         ELSE {Answer(t, NoReply)} : t \in BatchTexts}

RerunFolders ==
  { {<<"a", ".", "p", "d", "f">>, <<"a", ".", "p", "n", "g">>},
    {<<"a", ".", "p", "n", "g">>, <<"d", ".", "p", "n", "g">>} }

\* The program is started again once a run has ended: a new process, the
\* folder and the output files as the run before left them.
Rerun ==
  /\ pc = "done"
  /\ run < MaxRuns
  /\ run' = run + 1
  /\ firstOutputs' = IF run = 1 THEN outputs ELSE firstOutputs
  /\ files' = <<>>
  /\ i' = 0
  /\ pc' = "start"
  /\ encoded' = NoFile
  /\ media_type' = ""
  /\ enhanced_path' = NoFile
  /\ response_text' = NoText
  /\ extracted_data' = NoData
  /\ vat_path' = "none"
  /\ reply' = NoReply
  /\ savedTo' = <<>>
  /\ failed' = {}
  /\ requests' = <<>>
  /\ extractCalls' = <<>>
  /\ failStage' = <<>>
  /\ UNCHANGED <<variant, folder, script, calls, tmp, outputs>>

InitRerun ==
  /\ InitWith(RerunFolders)
  /\ script \in [folder -> Answers]
  /\ calls = <<>>
NextRerun ==
  \/ GetSupportedFiles \/ LoopNext \/ Normalize
  \/ Extract({script[file_path].text}) \/ Parse
  \/ CheckVat({script[file_path].reply}) \/ Report
  \/ Rerun
SpecRerun == InitRerun /\ [][NextRerun]_vars

(***************************************************************************)
(* pdf_to_image called for several documents at the same time.  Each call  *)
(* is [pc, pdf_path, encoded_image, error, shared]: its position, its      *)
(* document, what it encoded, the statement that raised ("" when none) and *)
(* whether another call was between its write and its remove of the        *)
(* temporary file while this one was.                                      *)
(***************************************************************************)
Calls == 1..MaxCalls
PdfOf(p) == <<DigitRun[p], ".", "p", "d", "f">>

\* temp_image_path of call p: the same fixed name for every call.
call_temp_path_PerCall(p) == temp_image_path(variant) \o PdfOf(p)
call_temp_path(p) == temp_image_path(variant)

\* The call has written its temporary image and not yet removed it.
UsesTemp(c) == c.pc \in {"pdf_encode", "pdf_remove"}

InitCalls ==
  calls = [p \in Calls |->
             [pc |-> "pdf_render", pdf_path |-> PdfOf(p), encoded_image |-> NoFile,
              error |-> "", shared |-> FALSE]]

CallFrame ==
  UNCHANGED <<variant, folder, files, i, pc, docVars, batchVars, failStage,
              script, run, firstOutputs>>

\* fitz.open, doc[0], get_pixmap, tobytes.
CallRender(p) ==
  /\ calls[p].pc = "pdf_render"
  /\ calls' = [calls EXCEPT ![p].pc = "pdf_write"]
  /\ UNCHANGED tmp
  /\ CallFrame

\* The temporary image is written, replacing what the file held.
CallWriteTemp(p) ==
  /\ calls[p].pc = "pdf_write"
  /\ WriteTemp(call_temp_path(p), calls[p].pdf_path)
  /\ LET others == \E q \in Calls \ {p} : UsesTemp(calls[q]) IN
     calls' = [q \in Calls |->
                 IF q = p
                 THEN [calls[q] EXCEPT !.pc = "pdf_encode", !.shared = others]
                 ELSE IF UsesTemp(calls[q])
                      THEN [calls[q] EXCEPT !.shared = TRUE]
                      ELSE calls[q]]
  /\ CallFrame

\* encode_image(temp_image_path): open raises when the file is not there.
CallEncode(p) ==
  /\ calls[p].pc = "pdf_encode"
  /\ IF TempExists(call_temp_path(p))
     THEN calls' = [calls EXCEPT ![p].pc = "pdf_remove",
                                 ![p].encoded_image = TempContent(call_temp_path(p))]
     ELSE calls' = [calls EXCEPT ![p].pc = "raised", ![p].error = "encode_image"]
  /\ UNCHANGED tmp
  /\ CallFrame

\* os.remove(temp_image_path), which raises when the file is not there,
\* doc.close() and return encoded_image.
CallRemove(p) ==
  /\ calls[p].pc = "pdf_remove"
  /\ IF TempExists(call_temp_path(p))
     THEN /\ RemoveTemp(call_temp_path(p))
          /\ calls' = [calls EXCEPT ![p].pc = "returned"]
     ELSE /\ UNCHANGED tmp
          /\ calls' = [calls EXCEPT ![p].pc = "raised", ![p].error = "os.remove"]
  /\ CallFrame

InitConc == InitWith({{}}) /\ script = <<>> /\ InitCalls
NextConc ==
  \/ \E p \in Calls : CallRender(p)
  \/ \E p \in Calls : CallWriteTemp(p)
  \/ \E p \in Calls : CallEncode(p)
  \/ \E p \in Calls : CallRemove(p)
SpecConc == InitConc /\ [][NextConc]_vars

(***************************************************************************)
(* What the claims speak of.                                               *)
(***************************************************************************)
\* The object the backend's text denoted, for a document whose text parsed
\* to an object.
Payload == response_text.doc.data
PayloadVat == Payload["vat_number"]
ParsedToObject == extracted_data.kind = "dict"
\* process_invoice has returned a record that went through the VAT check.
VatChecked ==
  /\ pc = "report"
  /\ ParsedToObject
  /\ "vat_number" \in DOMAIN Payload
  /\ Truthy(PayloadVat)
Reliable_VAT_payer == extracted_data.data["reliable_VAT_payer"]
RequestsOf(k) == {r \in 1..Len(requests) : requests[r][1] = k}

\* Eligibility as the specification words it: normalized (spaces stripped,
\* uppercased) the identifier starts with "CZ" and the rest is 8 to 10
\* digits.
StatedEligible(v) ==
  /\ v.t = "str"
  /\ LET c == upper(replace_spaces(v.s)) IN
       /\ Len(c) >= 2 /\ c[1] = "C" /\ c[2] = "Z"
       /\ Len(c) - 2 \in 8..10
       /\ \A k \in 3..Len(c) : c[k] \in AsciiDigits
StatedBody(v) ==
  LET c == upper(replace_spaces(v.s)) IN [k \in 1..(Len(c) - 2) |-> c[k + 2]]

\* The registry answered 200 with a success status code.
ReplySuccess ==
  /\ reply.kind = "http" /\ reply.code = 200
  /\ reply.body.wellformed /\ reply.body.hasStatus
  /\ reply.body.statusCode = "0"

\* The reliability records of the reply whose identifier attribute is n.
MatchingFlags(n) ==
  LET recs == SelectSeq(reply.body.elems, IsStatusPlatceDPH)
      idx == {k \in 1..Len(recs) : recs[k].dicAttr = n}
  IN [first |-> IF idx = {} THEN "" ELSE
                  recs[CHOOSE k \in idx : \A m \in idx : k <= m].flagAttr,
      any |-> idx # {}]
\* No element of the reply carries the identifier n, as attribute or as
\* child element.
NoRecordFor(n) ==
  \A k \in 1..Len(reply.body.elems) :
    /\ reply.body.elems[k].dicAttr # n
    /\ reply.body.elems[k].dicChild # PyStr(n)

\* The verdict a stored value stands for: process_invoice itself reports
\* True as Reliable and False as Unreliable.
VerdictOf(value) ==
  IF value = PyTrue THEN "Reliable"
  ELSE IF value = PyFalse THEN "Unreliable"
  ELSE IF value = UnableToVerify THEN "UnableToVerify"
  ELSE IF value = NoVatNumberFound THEN "NoVATNumber"
  ELSE "Other"

\* The enumeration of the specification for the flag of the matched record.
StatedFlagVerdict(flag) ==
  IF flag = "ANO" THEN "Unreliable"
  ELSE IF flag = "NENALEZEN" THEN "NotFound"
  ELSE "Reliable"

\* The verdict of the specification's state machine for the current
\* document's identifier and the registry's reply to it.
StatedVerdict ==
  IF ~("vat_number" \in DOMAIN Payload /\ Truthy(PayloadVat)) THEN "NoVATNumber"
  ELSE IF ~StatedEligible(PayloadVat) THEN "Ineligible"
  ELSE IF ~ReplySuccess THEN "ServiceUnavailable"
  ELSE IF ~MatchingFlags(StatedBody(PayloadVat)).any THEN "NotFound"
  ELSE StatedFlagVerdict(MatchingFlags(StatedBody(PayloadVat)).first)

(***************************************************************************)
(* The claims.                                                             *)
(***************************************************************************)
\* C1: every record save_results has written holds exactly the twelve
\* InvoiceRecord keys, never an extra key, never a missing one.
C1_ExactlyTwelveKeys ==
  \A o \in outputs : DOMAIN o.data = InvoiceRecordKeys

\* The documents at which an exception was raised in the normalization,
\* extraction or parsing stage.
FailedDocs == {k \in 1..Len(files) : failStage[k] # "none"}

\* C2: when the run has ended and exactly one document failed at the
\* normalization, extraction or parsing stage, every other document was
\* persisted and the failing one was reported as failed: the batch was not
\* aborted.
C2_BatchNeverAborts ==
  (pc \in {"done", "aborted"} /\ Cardinality(FailedDocs) = 1) =>
    \A k \in 1..Len(files) :
      IF k \in FailedDocs THEN k \in failed ELSE savedTo[k] # NoFile

\* C3: when the registry answered 200 with a success status code and a
\* record whose identifier is the numeric body, the verdict is the one the
\* enumeration gives the record's flag: ANO Unreliable, NE or empty
\* Reliable, NENALEZEN NotFound, anything else Reliable.
C3_FlagEnumeration ==
  (VatChecked /\ ReplySuccess /\ MatchingFlags(StatedBody(PayloadVat)).any) =>
    VerdictOf(Reliable_VAT_payer) =
      StatedFlagVerdict(MatchingFlags(StatedBody(PayloadVat)).first)

\* C4: when the registry answered 200 with a success status code and no
\* record, or no record for the numeric body, the verdict is never
\* Reliable (and, the registry having answered, not "unable to verify").
C4_NoRecordNeverReliable ==
  (VatChecked /\ ReplySuccess /\ NoRecordFor(StatedBody(PayloadVat))) =>
    /\ Reliable_VAT_payer # PyTrue
    /\ Reliable_VAT_payer # UnableToVerify

\* C5: reliable_VAT_payer is true for Reliable, false for Unreliable, a
\* string for NotFound, ServiceUnavailable and Ineligible, and the "No VAT
\* number found" string when vat_number is absent or empty.
C5_VerdictMapping ==
  (pc = "report" /\ ParsedToObject) =>
    CASE StatedVerdict = "Reliable" -> Reliable_VAT_payer = PyTrue
      [] StatedVerdict = "Unreliable" -> Reliable_VAT_payer = PyFalse
      [] StatedVerdict = "NoVATNumber" -> Reliable_VAT_payer = NoVatNumberFound
      [] OTHER -> Reliable_VAT_payer.t = "str"

C7_ServiceUnavailable ==
  (/\ pc = "report"
   /\ reply.kind = "http"
   /\ \/ reply.code # 200
      \/ /\ reply.body.wellformed /\ reply.body.hasStatus
         /\ reply.body.statusCode # "0") =>
    /\ ParsedToObject
    /\ Reliable_VAT_payer = UnableToVerify
C7_Witness ==
  /\ pc = "report"
  /\ reply.kind = "http" /\ reply.code # 200
  /\ reply.body.wellformed /\ reply.body.hasStatus
  /\ reply.body.statusCode = "0"
  /\ \E k \in 1..Len(reply.body.elems) :
       /\ reply.body.elems[k].dicAttr = StatedBody(PayloadVat)
       /\ reply.body.elems[k].flagAttr = "NE"
  /\ Reliable_VAT_payer = UnableToVerify

\* The VAT check of the document process_invoice has just returned failed.
VatCheckFailed ==
  /\ VatChecked
  /\ \/ PayloadVat.t # "str"
     \/ reply.kind = "exception"
     \/ /\ reply.kind = "http"
        /\ \/ reply.code # 200
           \/ ~reply.body.wellformed
           \/ ~reply.body.hasStatus

\* C8: when a document parsed to an object with a non-empty vat_number and
\* the VAT check failed (an exception or timeout of the request, a status
\* other than 200, XML that does not parse, no status element, a
\* vat_number that is not a string), the step of process_all_invoices that
\* follows persists the record, with reliable_VAT_payer "Unable to verify",
\* and does not report the document as failed.
C8_DegradesToSentinel ==
  [][VatCheckFailed =>
       /\ i \notin failed'
       /\ \E o \in outputs' :
            /\ o.path = output_filename(file_path)
            /\ o.data = extracted_data.data
            /\ DOMAIN o.data = DOMAIN Payload \cup {"reliable_VAT_payer"}
            /\ o.data["reliable_VAT_payer"] = UnableToVerify]_vars
C8_Witness ==
  /\ pc = "loop" /\ i = 2
  /\ vat_path = "exception"
  /\ \E o \in outputs :
       /\ o.path = savedTo[1]
       /\ o.data["reliable_VAT_payer"] = UnableToVerify

\* C9: two distinct files of one batch are never saved to the same output
\* path.
C9_DistinctOutputPaths ==
  \A a, b \in 1..Len(files) :
    (a # b /\ files[a] # files[b] /\ savedTo[a] # NoFile /\ savedTo[b] # NoFile)
      => savedTo[a] # savedTo[b]

\* C10: no temporary file exists once the processing of a document has
\* ended, however it ended.
C10_NoTemporaryFileLeft ==
  pc \in {"loop", "done", "aborted"} => tmp = {}

\* Every call of pdf_to_image has returned or raised.
AllCallsEnded == \A p \in Calls : calls[p].pc \in {"returned", "raised"}
\* Call p encoded the image rendered from another call's document.
EncodedOther(p) ==
  calls[p].encoded_image # NoFile /\ calls[p].encoded_image # calls[p].pdf_path

\* C11: with the fixed temporary filename concurrent calls of pdf_to_image
\* are not safe: whenever two calls had the temporary file in use at the
\* same time, some call encoded another document's image or raised because
\* the file was already removed; calls that did not overlap all return
\* their own document's image.
C11_SharedTempHazard ==
  AllCallsEnded =>
    ((\E p \in Calls : calls[p].shared)
       <=> (\E p \in Calls : EncodedOther(p) \/ calls[p].pc = "raised"))
C11_Witness ==
  /\ AllCallsEnded
  /\ calls[1].pc = "returned" /\ calls[1].encoded_image = PdfOf(2)
  /\ calls[2].pc = "raised" /\ calls[2].error = "os.remove"

\* The extension of the name, compared case-insensitively, is one of the
\* six supported ones.
StatedSupported(name) ==
  \E k \in 1..Len(supported_extensions) :
    lower(suffix(name)) = supported_extensions[k]

\* C12: get_supported_files returns a file of the folder if and only if
\* its extension, compared case-insensitively, is a supported one; a
\* mixed-case extension such as .Pdf is discovered.
C12_CaseInsensitiveDiscovery ==
  pc # "start" =>
    \A f \in folder : StatedSupported(f) <=> (\E k \in 1..Len(files) : files[k] = f)

\* Fence stripping as the specification words it: an optional leading
\* triple backtick with an optional language tag, an optional trailing
\* triple backtick, then the white space around what is left.
IsLetter(c) ==
  \E k \in 1..Len(LowerLetters) : c = LowerLetters[k] \/ c = UpperLetters[k]
RECURSIVE DropTag(_)
DropTag(s) == IF s # <<>> /\ IsLetter(Head(s)) THEN DropTag(Tail(s)) ELSE s
StatedStripFences(text) ==
  LET a == IF startswith(text, Fence)
           THEN DropTag(SubSeq(text, Len(Fence) + 1, Len(text))) ELSE text
      b == IF endswith(a, Fence) THEN SubSeq(a, 1, Len(a) - Len(Fence)) ELSE a
  IN strip(b)
\* The backend's text is a JSON object, bare or inside a code fence.
FencedObject ==
  /\ response_text.doc.kind = "object"
  /\ StatedStripFences(response_text.chars) = <<DOC>>

\* C13: a JSON object wrapped in a code fence, with the tag json, with
\* another tag or with none, parses to the record the bare object parses
\* to: process_invoice returns a record holding the object's fields.
C13_FenceWithOrWithoutTag ==
  (pc \in {"vat", "report"} /\ FencedObject) =>
    /\ ParsedToObject
    /\ \A k \in DOMAIN Payload \ {"reliable_VAT_payer"} :
         k \in DOMAIN extracted_data.data /\ extracted_data.data[k] = Payload[k]

\* The backend's text is not valid JSON, or is JSON that is not an object.
MalformedText ==
  /\ response_text # NoText
  /\ response_text.doc.kind \in
       {"invalid", "array", "string", "number", "bool", "null"}

\* C14: for a text that is not valid JSON or not a JSON object
\* process_invoice returns no record, nothing is written for the document
\* and it is reported as failed.
C14_MalformedFailsDocument ==
  /\ (pc = "report" /\ MalformedText) => extracted_data = ReturnNone
  /\ (pc = "loop" /\ i > 1 /\ MalformedText) =>
       /\ (i - 1) \in failed
       /\ savedTo[i - 1] = NoFile
       /\ outputs = {}
C14_Witness ==
  /\ pc = "loop" /\ i = 2
  /\ response_text.doc.kind = "string"
  /\ failed = {1} /\ outputs = {}

\* The backend's text denotes an object that lacks one of the eleven keys
\* other than reliable_VAT_payer.
LacksKey ==
  /\ response_text.doc.kind = "object"
  /\ \E k \in InvoiceRecordKeys \ {"reliable_VAT_payer"} : k \notin DOMAIN Payload

\* C15: an object that lacks one of the eleven keys other than
\* reliable_VAT_payer is rejected: process_invoice returns no record for
\* it and nothing is persisted for the document.
C15_MissingKeyRejected ==
  /\ (pc = "report" /\ LacksKey) => extracted_data = ReturnNone
  /\ (pc = "loop" /\ i > 1 /\ LacksKey) => savedTo[i - 1] = NoFile

\* C16: a later run of process_all_invoices on the same folder, with the
\* backend and the registry answering each file as they did before, ends
\* with every output file holding exactly what the first run left in it.
C16_RerunIdempotent ==
  (run > 1 /\ pc = "done") => outputs = firstOutputs
C16_Witness ==
  /\ run = 2 /\ pc = "done"
  /\ Cardinality(outputs) = 2
  /\ outputs = firstOutputs
  /\ \A k \in 1..Len(files) : savedTo[k] # NoFile

C18_ReliableSetByPipeline ==
  /\ \A o \in outputs :
       /\ "reliable_VAT_payer" \in DOMAIN o.data
       /\ o.data["reliable_VAT_payer"] \in
            {PyTrue, PyFalse, UnableToVerify, NoVatNumberFound}
  /\ (pc = "report" /\ ParsedToObject) =>
       /\ "reliable_VAT_payer" \in DOMAIN extracted_data.data
       /\ IF "vat_number" \in DOMAIN Payload /\ Truthy(PayloadVat)
          THEN Reliable_VAT_payer \in {PyTrue, PyFalse, UnableToVerify}
          ELSE /\ Reliable_VAT_payer = NoVatNumberFound
               /\ RequestsOf(i) = {}
               /\ reply = NoReply
C18_Witness ==
  /\ pc = "report" /\ ParsedToObject
  /\ Payload["reliable_VAT_payer"] = BackendSays
  /\ RequestsOf(i) # {}
  /\ Reliable_VAT_payer = PyFalse

\* The output files other than the one of the current document.
OtherOutputs(S) == {o \in S : o.path # output_filename(file_path)}

\* C19: the step of process_all_invoices that follows process_invoice
\* writes the document's output file when process_invoice returned a
\* record, and then leaves every other output file as it was; when
\* process_invoice returned None it writes and changes nothing; and no
\* other step of the run touches an output file.
C19_WrittenIffRecord ==
  [][/\ (pc = "report" /\ extracted_data.kind = "dict") =>
          /\ \E o \in outputs' :
               o.path = output_filename(file_path) /\ o.data = extracted_data.data
          /\ savedTo'[i] = output_filename(file_path)
          /\ OtherOutputs(outputs') = OtherOutputs(outputs)
     /\ (pc = "report" /\ extracted_data.kind # "dict") =>
          /\ outputs' = outputs
          /\ savedTo' = savedTo
          /\ i \in failed'
     /\ pc # "report" => outputs' = outputs
    ]_vars
C19_Witness ==
  /\ pc = "loop" /\ i = 3
  /\ savedTo[1] # NoFile /\ savedTo[2] = NoFile
  /\ failed = {2} /\ failStage[2] = "parse"
  /\ Cardinality(outputs) = 1
  /\ \E o \in outputs : o.path = savedTo[1]

\* The other of the two source files.
OtherVariant == IF variant = "groq" THEN "anthropic" ELSE "groq"

\* The outcomes the comparison covers: vat_number absent or empty, an
\* identifier that is not eligible, an exception of the request, a status
\* other than 200, XML that does not parse, no status element, a status
\* code that is not the success value, success with no payer record.
ListedOutcome ==
  \/ ~("vat_number" \in DOMAIN Payload /\ Truthy(PayloadVat))
  \/ ~StatedEligible(PayloadVat)
  \/ reply.kind = "exception"
  \/ /\ reply.kind = "http"
     /\ \/ reply.code # 200
        \/ ~reply.body.wellformed
        \/ ~reply.body.hasStatus
        \/ reply.body.statusCode # "0"
        \/ reply.body.elems = <<>>

\* What the other source file stores for the same vat_number and the same
\* reply.
OtherValue ==
  IF ~has_vat_number(Payload) THEN NoVatNumberFound
  ELSE IF vat_precheck(PayloadVat) # "request" THEN reliable_value(PyNone)
  ELSE reliable_value(
         vat_after_post(OtherVariant, reply, vat_numeric(PayloadVat)).ret)

\* C20: for each of the listed outcomes the two source files store the
\* same reliable_VAT_payer for the same vat_number and the same reply.
C20_VariantsAgree ==
  (pc = "report" /\ ParsedToObject /\ ListedOutcome) =>
    Reliable_VAT_payer = OtherValue

====
